---- MODULE Spec2Model ----
(***************************************************************************)
(* Model of src/app.py: the reference date of the quotation                *)
(* (data_cotacao), the PTAX lookup with its backward search                *)
(* (cotacao_bacen) and the summary by currency (processar_csv).            *)
(***************************************************************************)
EXTENDS Integers, Sequences, FiniteSets, TLC

\* ------------------------------------------------------------------ bounds
\* Years modelled: 2023 .. 2023 + NumAnos (2024 and 2028 are leap years).
NumAnos == 5
\* datetime.today() carries a time of day: hours 0 .. HoraMax (0 = midnight).
HoraMax == 1

\* Python values that are a float or a str carry their type: isinstance() and a
\* comparison with "-" tell them apart.
Float(x) == [tipo |-> "float", val |-> x]
Str(x) == [tipo |-> "str", val |-> x]
IsFloat(v) == v.tipo = "float"
IsStr(v, x) == v.tipo = "str" /\ v.val = x

\* A formatted date is a tuple of its fields in the order written; these are the
\* other texts a date column holds.
TextoVazio == <<>>
Traco == <<"-">>

\* ------------------------------------------------------- datetime (stdlib)
Bissexto(a) == (a % 4 = 0) /\ ((a % 100 # 0) \/ (a % 400 = 0))

DiasNoMes(a, m) ==
    IF m = 2 THEN (IF Bissexto(a) THEN 29 ELSE 28)
    ELSE IF m \in {4, 6, 9, 11} THEN 30 ELSE 31

RECURSIVE DiasAntesDoMes(_, _)
DiasAntesDoMes(a, m) ==
    IF m = 1 THEN 0 ELSE DiasAntesDoMes(a, m - 1) + DiasNoMes(a, m - 1)

\* date.toordinal(): 1 is 0001-01-01.
Ordinal(d) ==
    LET y == d.ano - 1
    IN  y * 365 + (y \div 4) - (y \div 100) + (y \div 400)
        + DiasAntesDoMes(d.ano, d.mes) + d.dia

\* datetime.weekday(): 0 = Monday ... 5 = Saturday, 6 = Sunday.
Weekday(d) == (Ordinal(d) + 6) % 7

\* datetime(ano, mes, dia): midnight of that day.
DateTime(a, m, d) == [ano |-> a, mes |-> m, dia |-> d, hora |-> 0]
\* A datetime variable not assigned yet.
SemData == [ano |-> 0, mes |-> 0, dia |-> 0, hora |-> 0]

\* datetime <= datetime: year, month, day, time compared in that order.
MenorIgual(x, y) ==
    \/ x.ano < y.ano
    \/ x.ano = y.ano /\ x.mes < y.mes
    \/ x.ano = y.ano /\ x.mes = y.mes /\ x.dia < y.dia
    \/ x.ano = y.ano /\ x.mes = y.mes /\ x.dia = y.dia /\ x.hora <= y.hora

\* datetime - timedelta(days=1): the time of day is kept.
MenosUmDia(d) ==
    IF d.dia > 1 THEN [d EXCEPT !.dia = d.dia - 1]
    ELSE IF d.mes > 1
         THEN [d EXCEPT !.mes = d.mes - 1, !.dia = DiasNoMes(d.ano, d.mes - 1)]
         ELSE [d EXCEPT !.ano = d.ano - 1, !.mes = 12, !.dia = 31]

RECURSIVE MenosDias(_, _)
MenosDias(d, n) == IF n = 0 THEN d ELSE MenosDias(MenosUmDia(d), n - 1)

\* strftime("%m/%d/%Y") and strptime(s, "%m/%d/%Y"): month first; the time of
\* day is not written and reads back as midnight.
StrfMDY(d) == <<d.mes, d.dia, d.ano>>
StrpMDY(s) == DateTime(s[3], s[1], s[2])
\* strftime("%d/%m/%Y"): day first.
StrfDMY(d) == <<d.dia, d.mes, d.ano>>

\* ------------------------------------------------------------- constants
\* INTERVALOS_RREO: <<inicio, fim, referencia>>, each <<mes, dia>>.
INTERVALOS_RREO ==
    << << <<3, 30>>,  <<5, 29>>,  <<2, 28>>  >>,
       << <<5, 30>>,  <<7, 29>>,  <<4, 30>>  >>,
       << <<7, 30>>,  <<9, 29>>,  <<6, 30>>  >>,
       << <<9, 30>>,  <<11, 29>>, <<8, 31>>  >>,
       << <<11, 30>>, <<1, 29>>,  <<10, 31>> >>,
       << <<1, 30>>,  <<3, 29>>,  <<12, 31>> >> >>

\* -------------------------------------------------------------- the state
VARIABLES
    principal,   \* the function the run entered: its return ends the run
    pc,          \* position in the code
    agora,       \* the system clock datetime.today() reads
    hoje,        \* data_cotacao: datetime.today()
    intervalo,   \* data_cotacao: index of the interval the for loop broke at, 0 = none
    data_base,   \* data_cotacao: data_base
    ajustes,     \* data_cotacao: iterations of the weekend loop (one log line each)
    data_ref,    \* data_cotacao's return value, "%m/%d/%Y"; cotacao_bacen's data_ref
    moeda,       \* cotacao_bacen: moeda
    i,           \* cotacao_bacen: the for loop's i
    df,          \* cotacao_bacen: the frame collect() returned
    avisos,      \* cotacao_bacen: warnings logged by the except block in this call
    resultado,   \* cotacao_bacen's return value <<cotacao, data>>
    consultas,   \* the queries sent to the provider by the run, or by the
                 \* session's lookup, in progress: <<moeda, dataCotacao>>
    df_csv,      \* processar_csv: the rows of the CSV
    resumo,      \* processar_csv: the grouped frame, rows <<moeda, valor>>
    idx,         \* processar_csv: the row of resumo the for loop is at
    valores,     \* processar_csv: the list valores
    retorno,     \* processar_csv's return value
    cache,       \* st.cache_data: the entries kept for cotacao_bacen
    relogio      \* the clock the cache reads, in ticks of Tique seconds

varsData == <<hoje, intervalo, data_base, ajustes>>
varsCot == <<moeda, i, df, avisos, resultado>>
varsCsv == <<df_csv, resumo, idx, valores, retorno>>
varsCache == <<cache, relogio>>
vars == <<principal, pc, agora, hoje, intervalo, data_base, ajustes, data_ref,
          moeda, i, df, avisos, resultado, consultas,
          df_csv, resumo, idx, valores, retorno, cache, relogio>>

\* No CSV was given: the run is of data_cotacao or of cotacao_bacen alone.
SemRetorno == [tipo |-> "pendente", linhas |-> <<>>]
CsvVazio ==
    /\ df_csv = <<>>
    /\ resumo = <<>>
    /\ idx = 0
    /\ valores = <<>>
    /\ retorno = SemRetorno

\* The values datetime.today() may return.
Anos == 2023 .. (2023 + NumAnos)
Hojes ==
    { [ano |-> a, mes |-> m, dia |-> d, hora |-> h] :
        a \in Anos, m \in 1..12, d \in 1..31, h \in 0..HoraMax }
Instantes == { t \in Hojes : t.dia <= DiasNoMes(t.ano, t.mes) }

\* --------------------------------------------------------- data_cotacao
\* Lines 114-124: the concrete start and end of interval k for year `ano`.
IniPeriodo(k, ano) ==
    DateTime(ano, INTERVALOS_RREO[k][1][1], INTERVALOS_RREO[k][1][2])

FimPeriodo(k, ano) ==
    LET mes_ini == INTERVALOS_RREO[k][1][1]
        mes_fim == INTERVALOS_RREO[k][2][1]
        dia_fim == INTERVALOS_RREO[k][2][2]
    IN  IF mes_ini < mes_fim THEN DateTime(ano, mes_fim, dia_fim)
        ELSE DateTime(ano + 1, mes_fim, dia_fim)

\* Line 127: ini <= hoje <= fim_periodo.
NoIntervalo(t, k) ==
    /\ MenorIgual(IniPeriodo(k, t.ano), t)
    /\ MenorIgual(t, FimPeriodo(k, t.ano))

\* Lines 113-131: the interval the for loop breaks at, 0 when it runs to its else.
PrimeiroIntervalo(t) ==
    IF \E k \in 1..Len(INTERVALOS_RREO) : NoIntervalo(t, k)
    THEN CHOOSE k \in 1..Len(INTERVALOS_RREO) :
            /\ NoIntervalo(t, k)
            /\ \A j \in 1..(k - 1) : ~NoIntervalo(t, j)
    ELSE 0

\* Lines 129-130: the reference date of interval k.
DataReferencia(k, ano) ==
    LET mes_ref == INTERVALOS_RREO[k][3][1]
        dia_ref == INTERVALOS_RREO[k][3][2]
        ano_ref == IF mes_ref # 12 THEN ano ELSE ano - 1
    IN  DateTime(ano_ref, mes_ref, dia_ref)

\* The weekend test with Saturday taken for a working day.
FimDeSemanaSoDomingo(d) == Weekday(d) > 5

\* Line 138: the weekend test of the while loop.
FimDeSemana(d) == Weekday(d) >= 5

\* Line 109: hoje = datetime.today().
LeHoje ==
    /\ pc = "dc_hoje"
    /\ hoje' = agora
    /\ pc' = "dc_for"
    /\ UNCHANGED <<varsCache, principal, agora, varsCsv, intervalo, data_base, ajustes, data_ref, varsCot, consultas>>

\* Lines 113-131: the for loop finds an interval and breaks.
EscolheIntervalo ==
    /\ pc = "dc_for"
    /\ PrimeiroIntervalo(hoje) # 0
    /\ intervalo' = PrimeiroIntervalo(hoje)
    /\ data_base' = DataReferencia(PrimeiroIntervalo(hoje), hoje.ano)
    /\ pc' = "dc_while"
    /\ UNCHANGED <<varsCache, principal, agora, varsCsv, hoje, ajustes, data_ref, varsCot, consultas>>

\* Lines 132-135: no interval holds hoje.
Fallback ==
    /\ pc = "dc_for"
    /\ PrimeiroIntervalo(hoje) = 0
    /\ intervalo' = 0
    /\ data_base' = DateTime(hoje.ano, 2, 28)
    /\ pc' = "dc_while"
    /\ UNCHANGED <<varsCache, principal, agora, varsCsv, hoje, ajustes, data_ref, varsCot, consultas>>

\* Lines 138-140: one iteration of the weekend loop.
AjustaDiaUtil ==
    /\ pc = "dc_while"
    /\ FimDeSemana(data_base)
    /\ data_base' = MenosUmDia(data_base)
    /\ ajustes' = ajustes + 1
    /\ UNCHANGED <<varsCache, principal, agora, varsCsv, pc, hoje, intervalo, data_ref, varsCot, consultas>>

\* Lines 142-143: return data_base.strftime("%m/%d/%Y").
RetornaData ==
    /\ pc = "dc_while"
    /\ ~FimDeSemana(data_base)
    /\ data_ref' = StrfMDY(data_base)
    /\ pc' = IF principal = "data_cotacao" THEN "fim" ELSE "pc_loop"
    /\ UNCHANGED <<varsCache, principal, agora, varsCsv, hoje, intervalo, data_base, ajustes, varsCot, consultas>>

\* data_cotacao as a whole, for the callers' inputs: lines 113-143.
DataBase(t) ==
    IF PrimeiroIntervalo(t) # 0
    THEN DataReferencia(PrimeiroIntervalo(t), t.ano)
    ELSE DateTime(t.ano, 2, 28)

RECURSIVE DiaUtil(_)
DiaUtil(d) == IF FimDeSemana(d) THEN DiaUtil(MenosUmDia(d)) ELSE d

\* Every value data_cotacao returns for the instants modelled.
DatasDeReferencia == { StrfMDY(DiaUtil(DataBase(t))) : t \in Instantes }

\* --------------------------------------------------------- cotacao_bacen
\* The loop written as range(6).
DiasDeBuscaSeis == 5 + 1

\* Line 169: range(5).
DiasDeBusca == 5

\* What collect() returns: a frame of bulletins of one day, each with its
\* tipoBoletim and cotacaoVenda, in the order the provider sent them.
TiposBoletim == {"Fechamento PTAX", "Intermediário"}
Cotacoes == {2, 3}
Boletins == [tipoBoletim : TiposBoletim, cotacaoVenda : Cotacoes]
Respostas ==
    {<<>>} \cup { <<b>> : b \in Boletins } \cup { <<a, b>> : a, b \in Boletins }

\* dt_busca with the search starting on the day before data_ref.
DtBuscaDesdeOntem(ref, n) == StrfMDY(MenosDias(StrpMDY(ref), n + 1))

\* Line 170: dt_busca, "%m/%d/%Y".
DtBusca(ref, n) == StrfMDY(MenosDias(StrpMDY(ref), n))

\* Line 178: df[df['tipoBoletim'] == 'Fechamento PTAX'].
Fechamento(frame) ==
    SelectSeq(frame, LAMBDA b : b.tipoBoletim = "Fechamento PTAX")

\* Lines 176-180: the frame is not empty and neither is its closing part.
TemFechamento(frame) == frame # <<>> /\ Fechamento(frame) # <<>>

\* Line 182: float(fechamento['cotacaoVenda'].values[-1]).
CotacaoDe(frame) ==
    Float(Fechamento(frame)[Len(Fechamento(frame))].cotacaoVenda)

\* Line 183: the day of the quotation, "%d/%m/%Y".
DataFormatada(dt_busca) == StrfDMY(StrpMDY(dt_busca))

SemResultado == [cot |-> Str("None"), data |-> <<"None">>]

\* Line 146: ttl=86400, in seconds.
TTL_SEGUNDOS == 86400
\* The clock of the cache ticks every twelve hours.
Tique == 12 * 3600
TTL == TTL_SEGUNDOS \div Tique

\* An entry kept whatever the reference date of the call.
MesmaMoeda(e, m, d) == e.moeda = m

\* Lines 146-147: the key of an entry is the pair of arguments of the call.
MesmaChave(e, m, d) == e.moeda = m /\ e.data_ref = d

\* Line 146: an entry lives for ttl seconds from the moment it was written.
Vigente(e) == relogio - e.gravado < TTL

\* Line 146: the entries a call with these arguments may be answered from.
NoCache(m, d) == { e \in cache : MesmaChave(e, m, d) /\ Vigente(e) }

\* Line 146: the value the function returned is written under its arguments.
Guarda(res) ==
    { e \in cache : ~MesmaChave(e, moeda, data_ref) }
        \cup { [moeda |-> moeda, data_ref |-> data_ref, valor |-> res,
                gravado |-> relogio] }

\* The local currency looked up like any other.
RetornaBRLConsultando ==
    /\ pc = "cb_inicio"
    /\ moeda = "BRL"
    /\ i' = 0
    /\ pc' = "cb_for"
    /\ UNCHANGED <<varsCache, principal, agora, varsCsv, varsData, data_ref, moeda, df, avisos, resultado, consultas>>

\* Lines 159-161: the local currency.
RetornaBRL ==
    /\ pc = "cb_inicio"
    /\ moeda = "BRL"
    /\ resultado' = [cot |-> Float(1), data |-> TextoVazio]
    /\ pc' = "cb_fim"
    /\ cache' = Guarda(resultado')
    /\ UNCHANGED <<relogio, principal, agora, varsCsv, varsData, data_ref, moeda, i, df, avisos, consultas>>

\* Lines 164-166: no quotation is looked up for the SDR.
RetornaSDR ==
    /\ pc = "cb_inicio"
    /\ moeda = "XDR"
    /\ resultado' = [cot |-> Str("Sem cotação"), data |-> Traco]
    /\ pc' = "cb_fim"
    /\ cache' = Guarda(resultado')
    /\ UNCHANGED <<relogio, principal, agora, varsCsv, varsData, data_ref, moeda, i, df, avisos, consultas>>

\* Line 169: the for loop starts.
IniciaBusca ==
    /\ pc = "cb_inicio"
    /\ moeda \notin {"BRL", "XDR"}
    /\ i' = 0
    /\ pc' = "cb_for"
    /\ UNCHANGED <<varsCache, principal, agora, varsCsv, varsData, data_ref, moeda, df, avisos, resultado, consultas>>

\* Lines 170-174: the query of day i is answered with a frame.
Consulta ==
    /\ pc = "cb_for"
    /\ i < DiasDeBusca
    /\ consultas' = Append(consultas, <<moeda, DtBusca(data_ref, i)>>)
    /\ \E r \in Respostas : df' = r
    /\ pc' = "cb_df"
    /\ UNCHANGED <<varsCache, principal, agora, varsCsv, varsData, data_ref, moeda, i, avisos, resultado>>

\* Lines 170-174, 187: the query of day i raises.
ConsultaFalha ==
    /\ pc = "cb_for"
    /\ i < DiasDeBusca
    /\ consultas' = Append(consultas, <<moeda, DtBusca(data_ref, i)>>)
    /\ pc' = "cb_except"
    /\ UNCHANGED <<varsCache, principal, agora, varsCsv, varsData, data_ref, moeda, i, df, avisos, resultado>>

\* Lines 176-185: the frame holds a closing bulletin.
Encontrou ==
    /\ pc = "cb_df"
    /\ TemFechamento(df)
    /\ resultado' = [cot |-> CotacaoDe(df),
                     data |-> DataFormatada(DtBusca(data_ref, i))]
    /\ pc' = "cb_fim"
    /\ cache' = Guarda(resultado')
    /\ UNCHANGED <<relogio, principal, agora, varsCsv, varsData, data_ref, moeda, i, df, avisos, consultas>>

\* Lines 176-180: an empty frame, or one with no closing bulletin: next day.
SemFechamento ==
    /\ pc = "cb_df"
    /\ ~TemFechamento(df)
    /\ i' = i + 1
    /\ pc' = "cb_for"
    /\ UNCHANGED <<varsCache, principal, agora, varsCsv, varsData, data_ref, moeda, df, avisos, resultado, consultas>>

\* The except block raising again.
TrataExcecaoPropaga ==
    /\ pc = "cb_except"
    /\ pc' = "abortado"
    /\ UNCHANGED <<varsCache, principal, agora, varsCsv, varsData, data_ref, varsCot, consultas>>

\* Lines 187-189: the exception is logged and the loop continues.
TrataExcecao ==
    /\ pc = "cb_except"
    /\ avisos' = avisos + 1
    /\ i' = i + 1
    /\ pc' = "cb_for"
    /\ UNCHANGED <<varsCache, principal, agora, varsCsv, varsData, data_ref, moeda, df, resultado, consultas>>

\* Lines 191-192: the loop ran out.
Esgotou ==
    /\ pc = "cb_for"
    /\ i >= DiasDeBusca
    /\ resultado' = [cot |-> Str("-"), data |-> Traco]
    /\ pc' = "cb_fim"
    /\ cache' = Guarda(resultado')
    /\ UNCHANGED <<relogio, principal, agora, varsCsv, varsData, data_ref, moeda, i, df, avisos, consultas>>

\* MAPA_MOEDAS, lines 23-29.
MAPA_MOEDAS ==
    [ n \in {"Real", "Dólar dos EUA", "Euro", "Direito Especial - SDR", "Iene"} |->
        CASE n = "Real" -> "BRL"
          [] n = "Dólar dos EUA" -> "USD"
          [] n = "Euro" -> "EUR"
          [] n = "Direito Especial - SDR" -> "XDR"
          [] n = "Iene" -> "JPY" ]

Codigos == { MAPA_MOEDAS[n] : n \in DOMAIN MAPA_MOEDAS }

\* --------------------------------------------------------- processar_csv
\* A text cell is the sequence of its characters.
MAIUSCULAS ==
    <<"A", "B", "C", "D", "E", "F", "G", "H", "I", "J", "K", "L", "M", "N", "O", "P", "Q", "R", "S", "T", "U", "V", "W", "X", "Y", "Z", "Á", "Ã", "Ç", "É", "Í", "Ó">>
MINUSCULAS ==
    <<"a", "b", "c", "d", "e", "f", "g", "h", "i", "j", "k", "l", "m", "n", "o", "p", "q", "r", "s", "t", "u", "v", "w", "x", "y", "z", "á", "ã", "ç", "é", "í", "ó">>
ESPACOS == {" ", "\t", "\n"}

\* str.lower(), character by character.
Lower(c) ==
    IF \E k \in 1..Len(MAIUSCULAS) : MAIUSCULAS[k] = c
    THEN MINUSCULAS[CHOOSE k \in 1..Len(MAIUSCULAS) : MAIUSCULAS[k] = c]
    ELSE c
StrLower(txt) == [k \in 1..Len(txt) |-> Lower(txt[k])]

\* str.strip(): the whitespace at both ends goes.
RECURSIVE StrStrip(_)
StrStrip(txt) ==
    IF txt = <<>> THEN txt
    ELSE IF Head(txt) \in ESPACOS THEN StrStrip(Tail(txt))
    ELSE IF txt[Len(txt)] \in ESPACOS THEN StrStrip(SubSeq(txt, 1, Len(txt) - 1))
    ELSE txt

\* Lines 214-215: the texts the filter compares with.
ALVO_TIPO ==
    <<"e", "m", "p", "r", "é", "s", "t", "i", "m", "o", " ", "o", "u", " ", "f", "i", "n", "a", "n", "c", "i", "a", "m", "e", "n", "t", "o">>
ALVO_SITUACAO ==
    <<"v", "i", "g", "e", "n", "t", "e">>

\* The filter comparing the cells as they are written in the file.
PassaSemNormalizar(l) ==
    /\ l.tipo = ALVO_TIPO
    /\ l.situacao = ALVO_SITUACAO
    /\ l.valor > 0

\* Lines 213-217: the filter of one row.
Passa(l) ==
    /\ StrLower(StrStrip(l.tipo)) = ALVO_TIPO
    /\ StrLower(StrStrip(l.situacao)) = ALVO_SITUACAO
    /\ l.valor > 0

Filtrado(csv) == SelectSeq(csv, Passa)

\* The currency names of the rows modelled, in the order groupby sorts them.
ORDEM_DAS_MOEDAS ==
    <<"Direito Especial - SDR", "Dólar dos EUA", "Euro", "Iene",
      "Libra esterlina", "Real">>

RECURSIVE SomaDaMoeda(_, _)
SomaDaMoeda(linhas, nome) ==
    IF linhas = <<>> THEN 0
    ELSE (IF Head(linhas).moeda = nome THEN Head(linhas).valor ELSE 0)
         + SomaDaMoeda(Tail(linhas), nome)

\* Lines 226-231: groupby(moeda)[valor].sum().reset_index().
Agrupa(linhas) ==
    LET presentes ==
            SelectSeq(ORDEM_DAS_MOEDAS,
                      LAMBDA n : \E k \in 1..Len(linhas) : linhas[k].moeda = n)
    IN  [k \in 1..Len(presentes) |->
            <<presentes[k], SomaDaMoeda(linhas, presentes[k])>>]

\* valor_brl with "-" for every rate that is not a number.
ValorBRLSoConvertido(nome_moeda, valor, cot) ==
    IF nome_moeda = "Direito Especial - SDR" \/ ~IsFloat(cot) THEN Str("-")
    ELSE Float(valor * cot.val)

\* valor_brl with the SDR treated as every other currency.
ValorBRLComSDR(nome_moeda, valor, cot) ==
    IF IsFloat(cot) THEN Float(valor * cot.val) ELSE Float(valor)

\* Lines 252-257: valor_brl.
ValorBRL(nome_moeda, valor, cot) ==
    IF nome_moeda = "Direito Especial - SDR" THEN Str("-")
    ELSE IF IsFloat(cot) THEN Float(valor * cot.val) ELSE Float(valor)

\* Line 259: one tuple of valores, under the columns of line 269.
Linha(nome_moeda, valor, cot, data_usada) ==
    [Moeda |-> nome_moeda, ValorALiberar |-> Float(valor), Cotacao |-> cot,
     DataDaCotacao |-> data_usada, ValorEmBRL |-> ValorBRL(nome_moeda, valor, cot)]

\* Line 273: df_saida[df_saida["Valor em BRL"] != "-"]["Valor em BRL"].sum().
RECURSIVE TotalBRL(_)
TotalBRL(linhas) ==
    IF linhas = <<>> THEN 0
    ELSE (IF ~IsStr(Head(linhas).ValorEmBRL, "-")
          THEN Head(linhas).ValorEmBRL.val ELSE 0)
         + TotalBRL(Tail(linhas))

\* Lines 274-277: the TOTAL row.
LinhaTotal(linhas) ==
    [Moeda |-> "TOTAL", ValorALiberar |-> Str(""), Cotacao |-> Str(""),
     DataDaCotacao |-> TextoVazio, ValorEmBRL |-> Float(TotalBRL(linhas))]

\* The run going on to the reference date with an empty grouping.
SegueSemLinhas ==
    /\ pc = "pc_inicio"
    /\ Filtrado(df_csv) = <<>>
    /\ resumo' = <<>>
    /\ idx' = 1
    /\ pc' = "dc_hoje"
    /\ UNCHANGED <<varsCache, principal, agora, varsData, data_ref, varsCot, consultas,
                   df_csv, valores, retorno>>

\* Lines 219-221: no row passes the filter.
RetornaNone ==
    /\ pc = "pc_inicio"
    /\ Filtrado(df_csv) = <<>>
    /\ retorno' = [tipo |-> "None", linhas |-> <<>>]
    /\ pc' = "fim"
    /\ UNCHANGED <<varsCache, principal, agora, varsData, data_ref, varsCot, consultas,
                   df_csv, resumo, idx, valores>>

\* Lines 213-236: rows pass the filter and are grouped; data_cotacao is called.
FiltraEAgrupa ==
    /\ pc = "pc_inicio"
    /\ Filtrado(df_csv) # <<>>
    /\ resumo' = Agrupa(Filtrado(df_csv))
    /\ idx' = 1
    /\ pc' = "dc_hoje"
    /\ UNCHANGED <<varsCache, principal, agora, varsData, data_ref, varsCot, consultas,
                   df_csv, valores, retorno>>

\* The unmapped currency given a row without a rate.
MoedaNaoMapeadaComLinha ==
    /\ pc = "pc_loop"
    /\ idx <= Len(resumo)
    /\ resumo[idx][1] \notin DOMAIN MAPA_MOEDAS
    /\ valores' = Append(valores, Linha(resumo[idx][1], resumo[idx][2],
                                        Str("-"), Traco))
    /\ idx' = idx + 1
    /\ UNCHANGED <<varsCache, principal, pc, agora, varsData, data_ref, varsCot, consultas,
                   df_csv, resumo, retorno>>

\* Lines 244-247: the currency is not a key of MAPA_MOEDAS.
MoedaNaoMapeada ==
    /\ pc = "pc_loop"
    /\ idx <= Len(resumo)
    /\ resumo[idx][1] \notin DOMAIN MAPA_MOEDAS
    /\ idx' = idx + 1
    /\ UNCHANGED <<varsCache, principal, pc, agora, varsData, data_ref, varsCot, consultas,
                   df_csv, resumo, valores, retorno>>

\* Lines 146, 250: cotacao_bacen(codigo, data_ref) is called and the cache
\* holds a live entry for the arguments: the body does not run.
CotacaoEmCache ==
    /\ pc = "pc_loop"
    /\ idx <= Len(resumo)
    /\ resumo[idx][1] \in DOMAIN MAPA_MOEDAS
    /\ \E e \in NoCache(MAPA_MOEDAS[resumo[idx][1]], data_ref) :
          resultado' = e.valor
    /\ moeda' = MAPA_MOEDAS[resumo[idx][1]]
    /\ i' = 0
    /\ df' = <<>>
    /\ avisos' = 0
    /\ pc' = "cb_fim"
    /\ UNCHANGED <<varsCache, principal, agora, varsData, data_ref, consultas, varsCsv>>

\* Lines 146, 250: cotacao_bacen(codigo, data_ref) is called, the cache holds
\* no live entry for the arguments and the body runs with fresh locals.
ChamaCotacao ==
    /\ pc = "pc_loop"
    /\ idx <= Len(resumo)
    /\ resumo[idx][1] \in DOMAIN MAPA_MOEDAS
    /\ NoCache(MAPA_MOEDAS[resumo[idx][1]], data_ref) = {}
    /\ moeda' = MAPA_MOEDAS[resumo[idx][1]]
    /\ i' = 0
    /\ df' = <<>>
    /\ avisos' = 0
    /\ resultado' = SemResultado
    /\ pc' = "cb_inicio"
    /\ UNCHANGED <<varsCache, principal, agora, varsData, data_ref, consultas, varsCsv>>

\* Lines 250-259: cotacao_bacen returned; the row of the currency is appended.
\* The locals of the call are gone.
AcrescentaLinha ==
    /\ pc = "cb_fim"
    /\ principal = "processar_csv"
    /\ valores' = Append(valores, Linha(resumo[idx][1], resumo[idx][2],
                                        resultado.cot, resultado.data))
    /\ idx' = idx + 1
    /\ moeda' = "None"
    /\ i' = 0
    /\ df' = <<>>
    /\ avisos' = 0
    /\ resultado' = SemResultado
    /\ pc' = "pc_loop"
    /\ UNCHANGED <<varsCache, principal, agora, varsData, data_ref, consultas,
                   df_csv, resumo, retorno>>

\* The frame returned as the loop left it.
TotalizaSemTotal ==
    /\ pc = "pc_loop"
    /\ idx > Len(resumo)
    /\ retorno' = [tipo |-> "DataFrame", linhas |-> valores]
    /\ pc' = "fim"
    /\ UNCHANGED <<varsCache, principal, agora, varsData, data_ref, varsCot, consultas,
                   df_csv, resumo, idx, valores>>

\* Lines 267-281: the loop is over; the TOTAL row is appended and the frame returned.
Totaliza ==
    /\ pc = "pc_loop"
    /\ idx > Len(resumo)
    /\ retorno' = [tipo |-> "DataFrame",
                   linhas |-> Append(valores, LinhaTotal(valores))]
    /\ pc' = "fim"
    /\ UNCHANGED <<varsCache, principal, agora, varsData, data_ref, varsCot, consultas,
                   df_csv, resumo, idx, valores>>

\* ------------------------------------------------------------ the inputs
\* Rows of the CSV: the two text columns as written in the file, the value and
\* the currency name.
TipoCDP ==
    <<"E", "m", "p", "r", "é", "s", "t", "i", "m", "o", " ", "o", "u", " ", "f", "i", "n", "a", "n", "c", "i", "a", "m", "e", "n", "t", "o">>
TipoMaiusculo ==
    <<" ", "E", "M", "P", "R", "É", "S", "T", "I", "M", "O", " ", "O", "U", " ", "F", "I", "N", "A", "N", "C", "I", "A", "M", "E", "N", "T", "O", " ", " ">>
TipoOutro ==
    <<"P", "r", "e", "c", "a", "t", "ó", "r", "i", "o", "s">>
SituacaoCDP ==
    <<"V", "i", "g", "e", "n", "t", "e">>
SituacaoMaiuscula ==
    <<"V", "I", "G", "E", "N", "T", "E", " ">>
SituacaoOutra ==
    <<"Q", "u", "i", "t", "a", "d", "a">>

Reg(t, s, v, m) == [tipo |-> t, situacao |-> s, valor |-> v, moeda |-> m]

Registros ==
    { Reg(TipoCDP, SituacaoCDP, 1, "Real"),
      Reg(TipoCDP, SituacaoCDP, 2, "Dólar dos EUA"),
      Reg(TipoMaiusculo, SituacaoMaiuscula, 1, "Dólar dos EUA"),
      Reg(TipoCDP, SituacaoCDP, 2, "Direito Especial - SDR"),
      Reg(TipoCDP, SituacaoCDP, 1, "Libra esterlina"),
      Reg(TipoOutro, SituacaoCDP, 2, "Dólar dos EUA"),
      Reg(TipoCDP, SituacaoOutra, 1, "Real"),
      Reg(TipoCDP, SituacaoCDP, 0, "Dólar dos EUA") }

\* A CSV holds at most MaxRegistros rows.
MaxRegistros == 2
Arquivos == UNION { [1..n -> Registros] : n \in 0..MaxRegistros }

\* The instants a CSV is processed at: one in the first weeks of a year and one
\* in the middle of a year.
InstantesDoCsv ==
    { t \in Instantes : t.ano = 2026 /\ t.mes \in {1, 6} /\ t.dia = 15 /\ t.hora = 1 }

\* The cache a run finds: empty, or holding the dollar's rate an earlier run
\* of the same process looked up for the reference date of the middle of 2026.
CachesIniciais ==
    { {},
      { [moeda |-> "USD", data_ref |-> <<4, 30, 2026>>,
         valor |-> [cot |-> Float(3), data |-> <<30, 4, 2026>>],
         gravado |-> 0] } }

Init ==
    /\ principal = "processar_csv"
    /\ pc = "pc_inicio"
    /\ agora \in InstantesDoCsv
    /\ hoje = SemData
    /\ intervalo = 0
    /\ data_base = SemData
    /\ ajustes = 0
    /\ data_ref = TextoVazio
    /\ moeda = "None"
    /\ i = 0
    /\ df = <<>>
    /\ avisos = 0
    /\ resultado = SemResultado
    /\ consultas = <<>>
    /\ df_csv \in Arquivos
    /\ resumo = <<>>
    /\ idx = 0
    /\ valores = <<>>
    /\ retorno = SemRetorno
    /\ cache \in CachesIniciais
    /\ relogio = 0

Next ==
    \/ RetornaNone
    \/ FiltraEAgrupa
    \/ LeHoje
    \/ EscolheIntervalo
    \/ Fallback
    \/ AjustaDiaUtil
    \/ RetornaData
    \/ MoedaNaoMapeada
    \/ ChamaCotacao
    \/ CotacaoEmCache
    \/ RetornaBRL
    \/ RetornaSDR
    \/ IniciaBusca
    \/ Consulta
    \/ ConsultaFalha
    \/ Encontrou
    \/ SemFechamento
    \/ TrataExcecao
    \/ Esgotou
    \/ AcrescentaLinha
    \/ Totaliza

Spec == Init /\ [][Next]_vars

InitData ==
    /\ principal = "data_cotacao"
    /\ pc = "dc_hoje"
    /\ agora \in Instantes
    /\ CsvVazio
    /\ hoje = SemData
    /\ intervalo = 0
    /\ data_base = SemData
    /\ ajustes = 0
    /\ data_ref = TextoVazio
    /\ moeda = "None"
    /\ i = 0
    /\ df = <<>>
    /\ avisos = 0
    /\ resultado = SemResultado
    /\ consultas = <<>>
    /\ cache = {}
    /\ relogio = 0

NextData ==
    \/ LeHoje
    \/ EscolheIntervalo
    \/ Fallback
    \/ AjustaDiaUtil
    \/ RetornaData

SpecData == InitData /\ [][NextData]_vars

InitCot ==
    /\ principal = "cotacao_bacen"
    /\ pc = "cb_inicio"
    /\ agora = SemData
    /\ CsvVazio
    /\ hoje = SemData
    /\ intervalo = 0
    /\ data_base = SemData
    /\ ajustes = 0
    /\ data_ref \in DatasDeReferencia
    /\ moeda \in Codigos
    /\ i = 0
    /\ df = <<>>
    /\ avisos = 0
    /\ resultado = SemResultado
    /\ consultas = <<>>
    /\ cache = {}
    /\ relogio = 0

NextCot ==
    \/ RetornaBRL
    \/ RetornaSDR
    \/ IniciaBusca
    \/ Consulta
    \/ ConsultaFalha
    \/ Encontrou
    \/ SemFechamento
    \/ TrataExcecao
    \/ Esgotou

SpecCot == InitCot /\ [][NextCot]_vars

\* ------------------------------------------------- lookups of one process
\* The process serves run after run, and each run calls cotacao_bacen: the
\* calls of a session, with the clock moving between them.
MaxRelogio == 2
MoedasDaSessao == {"USD"}
DatasDaSessao == { StrfMDY(DiaUtil(DataBase(t))) : t \in InstantesDoCsv }

\* Lines 146-147: a call whose arguments have a live entry is answered from it.
NovaChamadaEmCache ==
    /\ pc = "ocioso"
    /\ principal = "sessao"
    /\ \E m \in MoedasDaSessao, d \in DatasDaSessao :
          /\ \E e \in NoCache(m, d) : resultado' = e.valor
          /\ moeda' = m
          /\ data_ref' = d
    /\ pc' = "cb_fim"
    /\ UNCHANGED <<varsCache, principal, agora, varsData, i, df, avisos, consultas, varsCsv>>

\* Lines 146-147: a call whose arguments have no live entry runs the body.
NovaChamada ==
    /\ pc = "ocioso"
    /\ principal = "sessao"
    /\ \E m \in MoedasDaSessao, d \in DatasDaSessao :
          /\ NoCache(m, d) = {}
          /\ moeda' = m
          /\ data_ref' = d
    /\ pc' = "cb_inicio"
    /\ UNCHANGED <<varsCache, principal, agora, varsData, i, df, avisos, resultado,
                   consultas, varsCsv>>

\* The call returned to the session: its locals and its log of queries are gone.
Devolve ==
    /\ pc = "cb_fim"
    /\ principal = "sessao"
    /\ moeda' = "None"
    /\ data_ref' = TextoVazio
    /\ i' = 0
    /\ df' = <<>>
    /\ avisos' = 0
    /\ resultado' = SemResultado
    /\ consultas' = <<>>
    /\ pc' = "ocioso"
    /\ UNCHANGED <<varsCache, principal, agora, varsData, varsCsv>>

\* Time passes between two calls.
PassaTempo ==
    /\ pc = "ocioso"
    /\ principal = "sessao"
    /\ relogio < MaxRelogio
    /\ relogio' = relogio + 1
    /\ UNCHANGED <<cache, principal, pc, agora, varsData, data_ref, varsCot,
                   consultas, varsCsv>>

InitSessao ==
    /\ principal = "sessao"
    /\ pc = "ocioso"
    /\ agora = SemData
    /\ CsvVazio
    /\ hoje = SemData
    /\ intervalo = 0
    /\ data_base = SemData
    /\ ajustes = 0
    /\ data_ref = TextoVazio
    /\ moeda = "None"
    /\ i = 0
    /\ df = <<>>
    /\ avisos = 0
    /\ resultado = SemResultado
    /\ consultas = <<>>
    /\ cache = {}
    /\ relogio = 0

NextSessao ==
    \/ NovaChamada
    \/ NovaChamadaEmCache
    \/ IniciaBusca
    \/ Consulta
    \/ ConsultaFalha
    \/ Encontrou
    \/ SemFechamento
    \/ TrataExcecao
    \/ Esgotou
    \/ Devolve
    \/ PassaTempo

SpecSessao == InitSessao /\ [][NextSessao]_vars

\* ================================================================ claims
\* The calendar day of an instant.
Dia(t) == [t EXCEPT !.hora = 0]
\* data_base still holds the raw reference date: no weekend step was taken yet.
DataBruta == pc = "dc_while" /\ ajustes = 0
JanelasDe(t) == { k \in 1..Len(INTERVALOS_RREO) : NoIntervalo(t, k) }

\* C1: the six windows partition the year: every calendar date taken as today
\* lies in exactly one of the windows data_cotacao builds for today's year, and
\* the fallback to February 28 is never taken.
C1_JanelasParticionamOAno ==
    (pc \in {"dc_for", "dc_while", "fim"} /\ hoje.hora = 0) =>
        /\ Cardinality(JanelasDe(hoje)) = 1
        /\ (pc \in {"dc_while", "fim"} => intervalo # 0)

\* The occurrences <<k, a>> of a window (window k starting in year a) that hold
\* the calendar day of t.
Ocorrencias(t) ==
    { o \in (1..Len(INTERVALOS_RREO)) \X ((2023 - 1) .. (2023 + NumAnos)) :
        /\ MenorIgual(IniPeriodo(o[1], o[2]), Dia(t))
        /\ MenorIgual(Dia(t), FimPeriodo(o[1], o[2])) }

\* C2: every today in one occurrence of a window gets that occurrence's raw
\* reference date; every today from November 30 of year Y to January 29 of year
\* Y+1 gets October 31 of year Y.
C2_MesmaDataNaJanela ==
    DataBruta =>
        /\ \A o \in Ocorrencias(hoje) : data_base = DataReferencia(o[1], o[2])
        /\ (hoje.mes = 12 \/ (hoje.mes = 11 /\ hoje.dia = 30))
              => data_base = DateTime(hoje.ano, 10, 31)
        /\ (hoje.mes = 1 /\ hoje.dia <= 29)
              => data_base = DateTime(hoje.ano - 1, 10, 31)

\* C3: the date data_cotacao returns is a weekday, Monday to Friday, whether an
\* interval matched or the fallback was used.
C3_RetornaDiaUtil ==
    pc = "fim" => Weekday(StrpMDY(data_ref)) \in 0..4

C3_Witness == pc = "fim" /\ intervalo = 0 /\ ajustes = 1

\* d is the last calendar day of a bimester.
UltimoDiaDoBimestre(d) ==
    d.mes \in {2, 4, 6, 8, 10, 12} /\ d.dia = DiasNoMes(d.ano, d.mes) /\ d.hora = 0

\* C4: in every year, leap years included, the raw reference date is the last
\* calendar day of February, April, June, August, October or December, and the
\* date returned is that day or the nearest weekday before it.
C4_UltimoDiaDoBimestre ==
    /\ DataBruta => UltimoDiaDoBimestre(data_base)
    /\ pc = "fim" =>
          \E n \in 0..2 :
              \E a \in ((2023 - 1) .. (2023 + NumAnos)), m \in {2, 4, 6, 8, 10, 12} :
                  LET b == DateTime(a, m, DiasNoMes(a, m))
                  IN  /\ Ordinal(StrpMDY(data_ref)) = Ordinal(b) - n
                      /\ Weekday(StrpMDY(data_ref)) \in 0..4
                      /\ n = (IF Weekday(b) >= 5 THEN Weekday(b) - 4 ELSE 0)

\* The provider was asked n times in this call, for data_ref, the day before it,
\* ... in that order.
ConsultasEmOrdem(n) ==
    /\ Len(consultas) = n
    /\ \A j \in 1..n :
          /\ consultas[j][1] = moeda
          /\ Ordinal(StrpMDY(consultas[j][2])) = Ordinal(StrpMDY(data_ref)) - (j - 1)

TemBoletimDeFechamento(frame) ==
    \E k \in 1..Len(frame) : frame[k].tipoBoletim = "Fechamento PTAX"

C5_Estado ==
    /\ pc = "cb_for" => ConsultasEmOrdem(i)
    /\ pc \in {"cb_df", "cb_except"} => ConsultasEmOrdem(i + 1)
    /\ (pc = "cb_fim" /\ IsFloat(resultado.cot) /\ moeda # "BRL") =>
          /\ ConsultasEmOrdem(i + 1)
          /\ TemBoletimDeFechamento(df)
          /\ \E k \in 1..Len(df) :
                /\ df[k].tipoBoletim = "Fechamento PTAX"
                /\ resultado.cot.val = df[k].cotacaoVenda
          /\ LET dia == StrpMDY(consultas[Len(consultas)][2])
             IN  resultado.data = <<dia.dia, dia.mes, dia.ano>>

C5_Passo ==
    /\ (pc = "cb_df" /\ TemBoletimDeFechamento(df)) =>
          (pc' = "cb_fim" /\ IsFloat(resultado'.cot) /\ consultas' = consultas)
    /\ (pc = "cb_df" /\ ~TemBoletimDeFechamento(df)) =>
          (pc' = "cb_for" /\ i' = i + 1 /\ resultado' = resultado)
    /\ pc = "cb_fim" => consultas' = consultas

C7_Estado ==
    /\ pc \in {"cb_inicio", "cb_for", "cb_df", "cb_except", "cb_fim"}
    /\ (pc = "cb_fim" /\ avisos = 5) =>
          (IsStr(resultado.cot, "-") /\ resultado.data = Traco)
    /\ (pc = "cb_fim" /\ avisos > 0 /\ IsFloat(resultado.cot)) =>
          /\ TemBoletimDeFechamento(df)
          /\ resultado.cot.val \in { df[k].cotacaoVenda : k \in 1..Len(df) }
          /\ avisos < Len(consultas)

C7_Passo ==
    pc = "cb_except" =>
        (pc' = "cb_for" /\ i' = i + 1 /\ avisos' = avisos + 1 /\ resultado' = resultado)

\* C7: an error the provider raises for a day is not propagated: the lookup goes
\* on with the day before, returns the rate of a later-tried day that has a
\* closing quotation, and returns ("-", "-") when all five queries raise.
C7_ErroNaoPropaga == [](C7_Estado) /\ [][C7_Passo]_vars

C7_Witness == pc = "cb_fim" /\ avisos > 0 /\ IsFloat(resultado.cot)

\* The rows of a sequence of summary rows, as a set.
Linhas(tabela) == { tabela[k] : k \in 1..Len(tabela) }

\* The sum of value times rate over the rows whose rate is a number.
RECURSIVE SomaDasConversoes(_)
SomaDasConversoes(tabela) ==
    IF tabela = <<>> THEN 0
    ELSE (IF IsFloat(Head(tabela).Cotacao)
          THEN Head(tabela).ValorALiberar.val * Head(tabela).Cotacao.val ELSE 0)
         + SomaDasConversoes(Tail(tabela))

\* C8: the TOTAL row's converted value is the sum of the converted values of
\* the rows that carry a numeric conversion (value times a numeric rate); rows
\* with no applicable rate and rows with an unavailable rate add nothing.
C8_TotalSoDeConversoes ==
    (pc = "fim" /\ retorno.tipo = "DataFrame") =>
        LET total == retorno.linhas[Len(retorno.linhas)]
        IN  /\ total.Moeda = "TOTAL"
            /\ IsFloat(total.ValorEmBRL)
            /\ total.ValorEmBRL.val = SomaDasConversoes(valores)

\* The value grouped under a currency name: the sum over the rows of the CSV
\* that pass the filter.
Agregado(nome) ==
    LET S == { k \in 1..Len(df_csv) : Passa(df_csv[k]) /\ df_csv[k].moeda = nome }
        RECURSIVE Soma(_)
        Soma(T) == IF T = {} THEN 0
                   ELSE LET k == CHOOSE x \in T : TRUE
                        IN  df_csv[k].valor + Soma(T \ {k})
    IN  Soma(S)

Indisponivel(r) == IsStr(r.Cotacao, "-")

C9_Estado ==
    /\ \A r \in Linhas(valores) :
          Indisponivel(r) =>
              /\ r.Moeda \notin {"Real", "Direito Especial - SDR"}
              /\ r.DataDaCotacao = Traco
              /\ IsFloat(r.ValorEmBRL)
              /\ r.ValorEmBRL.val = Agregado(r.Moeda)
    /\ (pc = "fim" /\ Len(valores) > 0) =>
          /\ retorno.tipo = "DataFrame"
          /\ SubSeq(retorno.linhas, 1, Len(valores)) = valores

C9_Passo ==
    (pc = "cb_fim" /\ IsStr(resultado.cot, "-")) =>
        /\ pc' = "pc_loop"
        /\ Len(valores') = Len(valores) + 1
        /\ valores'[Len(valores')].Moeda = resumo[idx][1]
        /\ Indisponivel(valores'[Len(valores')])

\* C9: when the lookup of a mapped currency other than the SDR returns
\* unavailable, its row is still in the summary, with "-" as rate and as
\* quotation date and the raw aggregated value as converted value, and the run
\* ends with a summary.
C9_LinhaSemCotacao == [](C9_Estado) /\ [][C9_Passo]_vars

C9_Witness ==
    /\ pc = "fim"
    /\ retorno.tipo = "DataFrame"
    /\ \E r \in Linhas(retorno.linhas) : r.Moeda # "TOTAL" /\ Indisponivel(r)

C10_Estado ==
    /\ (pc = "cb_fim" /\ moeda = "BRL") =>
          (IsFloat(resultado.cot) /\ resultado.cot.val = 1)
    /\ \A k \in 1..Len(consultas) : consultas[k][1] # "BRL"
    /\ \A r \in Linhas(valores) :
          r.Moeda = "Real" =>
              /\ IsFloat(r.Cotacao) /\ r.Cotacao.val = 1
              /\ IsFloat(r.ValorEmBRL)
              /\ r.ValorEmBRL.val = Agregado("Real")

C10_Passo ==
    (pc = "cb_inicio" /\ moeda = "BRL") =>
        (pc' = "cb_fim" /\ consultas' = consultas)

\* C10: for the Real (BRL) cotacao_bacen returns the rate 1.0 and sends no query
\* to the provider, whatever the reference date and the provider's answers, and
\* the converted value of the row is the aggregated value.
C10_RealSemConsulta == [](C10_Estado) /\ [][C10_Passo]_vars

C10_Witness ==
    /\ pc = "fim"
    /\ retorno.tipo = "DataFrame"
    /\ consultas # <<>>
    /\ \E r \in Linhas(retorno.linhas) : r.Moeda = "Real"

\* A cell reads as a text once its surrounding whitespace is set aside and
\* every letter is taken for its lower-case form.
LeComo(txt, alvo) ==
    \E a \in 0..Len(txt) :
        /\ a + Len(alvo) <= Len(txt)
        /\ \A k \in 1..a : txt[k] \in ESPACOS
        /\ \A k \in (a + Len(alvo) + 1)..Len(txt) : txt[k] \in ESPACOS
        /\ \A k \in 1..Len(alvo) :
              \/ txt[a + k] = alvo[k]
              \/ \E j \in 1..Len(MAIUSCULAS) :
                    MAIUSCULAS[j] = txt[a + k] /\ MINUSCULAS[j] = alvo[k]

\* The records the summary is to be made of, among those a CSV may hold.
RegistrosIncluidos ==
    { l \in Registros :
        /\ LeComo(l.tipo, ALVO_TIPO)
        /\ LeComo(l.situacao, ALVO_SITUACAO)
        /\ l.valor > 0 }

\* Their places in the CSV.
Incluidos == { k \in 1..Len(df_csv) : df_csv[k] \in RegistrosIncluidos }

RECURSIVE SomaDosValores(_)
SomaDosValores(K) ==
    IF K = {} THEN 0
    ELSE LET k == CHOOSE x \in K : TRUE
         IN  df_csv[k].valor + SomaDosValores(K \ {k})

\* C11: a record is in the summary exactly when its debt type, trimmed and
\* lower-cased, is "empréstimo ou financiamento", its status, trimmed and
\* lower-cased, is "vigente" and its value is above zero; the value grouped
\* under a currency name is the sum of the values of exactly those records.
C11_FiltroEAgregacao ==
    (pc # "pc_inicio") =>
        /\ (Incluidos = {}) <=> (retorno.tipo = "None")
        /\ (Incluidos = {}) => (resumo = <<>>)
        /\ { resumo[k][1] : k \in 1..Len(resumo) }
              = { df_csv[k].moeda : k \in Incluidos }
        /\ \A j, k \in 1..Len(resumo) : resumo[j][1] = resumo[k][1] => j = k
        /\ \A k \in 1..Len(resumo) :
              resumo[k][2]
                = SomaDosValores({ n \in Incluidos : df_csv[n].moeda = resumo[k][1] })

C11_Witness ==
    /\ pc = "fim"
    /\ retorno.tipo = "DataFrame"
    /\ \E k \in 1..Len(df_csv) :
          k \in Incluidos /\ df_csv[k].tipo # TipoCDP
    /\ \E k \in 1..Len(resumo) : resumo[k][2] = 3

\* C12: when no record passes the filter, processar_csv returns None and stops
\* there: the reference date is not resolved, no rate is looked up, and there
\* is no summary table and no TOTAL row.
C12_VazioRetornaNone ==
    (pc # "pc_inicio" /\ Incluidos = {}) =>
        /\ pc = "fim"
        /\ retorno = [tipo |-> "None", linhas |-> <<>>]
        /\ hoje = SemData
        /\ data_ref = TextoVazio
        /\ resultado = SemResultado
        /\ consultas = <<>>
        /\ valores = <<>>

C12_Witness ==
    /\ pc = "fim"
    /\ retorno.tipo = "None"
    /\ \E k \in 1..Len(df_csv) : df_csv[k].valor = 0
    /\ \E k \in 1..Len(df_csv) : df_csv[k].valor > 0

\* The sum of the converted values the rows of a table carry as numbers.
RECURSIVE SomaDasLinhas(_)
SomaDasLinhas(tabela) ==
    IF tabela = <<>> THEN 0
    ELSE (IF IsFloat(Head(tabela).ValorEmBRL) THEN Head(tabela).ValorEmBRL.val ELSE 0)
         + SomaDasLinhas(Tail(tabela))

\* The grouped currencies that are keys of the mapping table, in their order.
Mapeadas == SelectSeq(resumo, LAMBDA g : g[1] \in DOMAIN MAPA_MOEDAS)

C13_Estado ==
    /\ \A r \in Linhas(valores) : r.Moeda \in DOMAIN MAPA_MOEDAS
    /\ \A k \in 1..Len(consultas) : consultas[k][1] \in Codigos
    /\ (pc = "fim" /\ retorno.tipo = "DataFrame") =>
          /\ Len(valores) = Len(Mapeadas)
          /\ \A k \in 1..Len(valores) :
                /\ valores[k].Moeda = Mapeadas[k][1]
                /\ valores[k].ValorALiberar = Float(Mapeadas[k][2])
          /\ retorno.linhas[Len(retorno.linhas)].ValorEmBRL
                = Float(SomaDasLinhas(valores))

C13_Passo ==
    (/\ pc = "pc_loop"
     /\ idx <= Len(resumo)
     /\ resumo[idx][1] \notin DOMAIN MAPA_MOEDAS) =>
        /\ idx' = idx + 1
        /\ UNCHANGED <<pc, data_ref, consultas, valores, resumo, retorno, varsCot>>

\* C13: a grouped currency name that is not a key of MAPA_MOEDAS gets no row,
\* no rate lookup and no share of TOTAL, and skipping it leaves everything the
\* other currencies are processed with as it was.
C13_MoedaNaoMapeada == [](C13_Estado) /\ [][C13_Passo]_vars

C13_Witness ==
    /\ pc = "fim"
    /\ retorno.tipo = "DataFrame"
    /\ \E k \in 1..Len(resumo) : resumo[k][1] = "Libra esterlina"
    /\ \E r \in Linhas(valores) : r.Moeda = "Dólar dos EUA"
    /\ consultas # <<>>

C14_Estado ==
    (pc = "cb_fim") =>
        \E e \in cache :
            /\ e.moeda = moeda /\ e.data_ref = data_ref
            /\ e.valor = resultado
            /\ relogio - e.gravado < TTL

C14_Passo ==
    /\ (pc = "ocioso" /\ pc' # "ocioso") =>
          LET vivos == { e \in cache :
                           /\ e.moeda = moeda' /\ e.data_ref = data_ref'
                           /\ relogio * Tique < e.gravado * Tique + TTL_SEGUNDOS }
          IN  IF vivos # {}
              THEN /\ pc' = "cb_fim"
                   /\ \E e \in vivos : resultado' = e.valor
                   /\ consultas' = consultas
                   /\ cache' = cache
              ELSE pc' = "cb_inicio"
    /\ (pc = "cb_inicio") => (pc' = "cb_for" /\ i' = 0)
    /\ (pc = "cb_for" /\ i = 0) =>
          consultas' = Append(consultas, <<moeda, data_ref>>)

\* C14: what cotacao_bacen returns, a rate or the unavailable result, is kept
\* under its currency code and reference date for 24 hours: a call with the
\* same arguments inside that time is answered with the kept result and no
\* query, whatever the provider would answer now; a call after that time, or
\* with another reference date, runs the body, which queries the provider.
C14_CachePorMoedaEData == [](C14_Estado) /\ [][C14_Passo]_vars

C14_Witness ==
    /\ pc = "cb_fim"
    /\ consultas = <<>>
    /\ \E e \in cache :
          /\ e.moeda = moeda /\ e.data_ref = data_ref
          /\ e.gravado < relogio
          /\ e.valor = resultado
          /\ e.valor.cot = Str("-")
    /\ \E e \in cache :
          /\ e.data_ref # data_ref
          /\ IsFloat(e.valor.cot)
          /\ relogio - e.gravado >= TTL

\* The table is rows of the currency names in `nomes`, each once, and then one
\* TOTAL row, the last.
UmaLinhaPorMoedaETotal(tabela, nomes) ==
    LET n == Len(tabela)
    IN  /\ n >= 1
        /\ tabela[n].Moeda = "TOTAL"
        /\ \A k \in 1..(n - 1) : tabela[k].Moeda # "TOTAL"
        /\ { tabela[k].Moeda : k \in 1..(n - 1) } = nomes
        /\ \A j, k \in 1..(n - 1) : tabela[j].Moeda = tabela[k].Moeda => j = k

\* C15, as claimed: every table processar_csv returns has one row per currency
\* name found among the records that passed the filter, each once, and then
\* exactly one TOTAL row, the last.
C15_UmaLinhaPorMoeda ==
    (pc = "fim" /\ retorno.tipo = "DataFrame") =>
        UmaLinhaPorMoedaETotal(retorno.linhas,
                               { df_csv[k].moeda : k \in Incluidos })

\* C15, amended: every table processar_csv returns has one row per currency
\* name that is found among the records that passed the filter and is a key of
\* MAPA_MOEDAS, each once, and then exactly one TOTAL row, the last.
C15_UmaLinhaPorMoedaMapeada ==
    (pc = "fim" /\ retorno.tipo = "DataFrame") =>
        UmaLinhaPorMoedaETotal(retorno.linhas,
                               { df_csv[k].moeda : k \in Incluidos }
                                   \cap DOMAIN MAPA_MOEDAS)

C15_Witness ==
    /\ pc = "fim"
    /\ retorno.tipo = "DataFrame"
    /\ \E k \in Incluidos : df_csv[k].moeda = "Libra esterlina"
    /\ Len(retorno.linhas) = 2
    /\ retorno.linhas[1].Moeda = "Direito Especial - SDR"

\* The sum of the converted values of the rows of currencies other than the SDR.
RECURSIVE SomaSemSDR(_)
SomaSemSDR(tabela) ==
    IF tabela = <<>> THEN 0
    ELSE (IF Head(tabela).Moeda # "Direito Especial - SDR"
             /\ IsFloat(Head(tabela).ValorEmBRL)
          THEN Head(tabela).ValorEmBRL.val ELSE 0)
         + SomaSemSDR(Tail(tabela))

C17_Estado ==
    /\ (pc = "cb_fim" /\ moeda = "XDR") =>
          (IsStr(resultado.cot, "Sem cotação") /\ resultado.data = Traco)
    /\ \A k \in 1..Len(consultas) : consultas[k][1] # "XDR"
    /\ \A r \in Linhas(valores) :
          r.Moeda = "Direito Especial - SDR" =>
              /\ IsStr(r.Cotacao, "Sem cotação")
              /\ r.DataDaCotacao = Traco
              /\ IsStr(r.ValorEmBRL, "-")
    /\ (pc = "fim" /\ retorno.tipo = "DataFrame") =>
          /\ \A k \in 1..Len(valores) : retorno.linhas[k] = valores[k]
          /\ retorno.linhas[Len(retorno.linhas)].ValorEmBRL
                = Float(SomaSemSDR(valores))

C17_Passo ==
    (pc = "cb_inicio" /\ moeda = "XDR") =>
        (pc' = "cb_fim" /\ consultas' = consultas)

\* C17: for the SDR (XDR) cotacao_bacen returns ("Sem cotação", "-") and sends
\* no query to the provider, the SDR row of the summary carries "-" as its
\* converted value, and TOTAL holds nothing of the SDR's aggregated value.
C17_SDRSemCotacao == [](C17_Estado) /\ [][C17_Passo]_vars

C17_Witness ==
    /\ pc = "fim"
    /\ retorno.tipo = "DataFrame"
    /\ \E r \in Linhas(retorno.linhas) : r.Moeda = "Direito Especial - SDR"
    /\ retorno.linhas[Len(retorno.linhas)].ValorEmBRL.val > 0

\* The windows <<k, a>> (window k starting in year a) that start or end on the
\* calendar day of t.
JanelasComExtremoEm(t) ==
    { o \in (1..Len(INTERVALOS_RREO)) \X ((2023 - 1) .. (2023 + NumAnos)) :
        \/ IniPeriodo(o[1], o[2]) = Dia(t)
        \/ FimPeriodo(o[1], o[2]) = Dia(t) }

\* C16: a window holds both of its endpoint days: for every instant, at any
\* time of day, whose calendar date is the start date or the end date of a
\* window, data_cotacao selects that window and takes its reference month and
\* day, not the fallback and not another window.
C16_ExtremosInclusivos ==
    (pc \in {"dc_while", "fim"}) =>
        \A o \in JanelasComExtremoEm(hoje) :
            /\ intervalo = o[1]
            /\ DataBruta =>
                  /\ data_base.mes = INTERVALOS_RREO[o[1]][3][1]
                  /\ data_base.dia = INTERVALOS_RREO[o[1]][3][2]

\* C18: whatever today is, the reference date data_cotacao returns is a day
\* before today's calendar date, never today and never a day to come, the
\* fallback included.
C18_ReferenciaAntesDeHoje ==
    (pc = "fim") =>
        /\ MenorIgual(StrpMDY(data_ref), Dia(hoje))
        /\ StrpMDY(data_ref) # Dia(hoje)

====
